---- MODULE Spec2Model ----
(***************************************************************************)
(* Model of the Vapi webhook server (src/webhook-server.js):               *)
(*   - POST /api/update-email, the email-correction workflow, with several *)
(*     requests interleaved at their awaits (Spec) or run one at a time    *)
(*     (SpecSerial), and with every remote call returning (SpecFair);      *)
(*   - POST /webhook, the tool-call dispatcher and its four handlers       *)
(*     (SpecWebhook);                                                      *)
(*   - a /webhook request and an update-email request side by side         *)
(*     (SpecServer);                                                       *)
(*   - a booking made by bookAppointment and then corrected (SpecBooking); *)
(*   - parseDateTime alone, in a process of any time zone (SpecParse).     *)
(* An action is the code that runs between two awaits: the return of one   *)
(* remote call, everything the handler does with it, and the issue of the  *)
(* next remote call.  The remote providers are the environment: the        *)
(* outcome of a call is chosen among a rejected fetch ("reject"), a        *)
(* non-success status ("notok") and a success ("ok").                      *)
(***************************************************************************)
EXTENDS Integers, Sequences, FiniteSets, TLC

\* Bounds of the model.
NumRequests == 2
MaxBatch == 2

\* const CAL_EVENT_TYPE_ID = 3917527
CAL_EVENT_TYPE_ID == 3917527

\* JavaScript's undefined (an absent field, an absent argument).
NoVal == "undefined"

Requests == 1..NumRequests
Outcomes == {"reject", "notok", "ok"}

(***************************************************************************)
(* Strings the code inspects are sequences of tokens, so that includes()   *)
(* is computed and not assumed.                                            *)
(***************************************************************************)
PlaceholderDomain == "@scteeth.temp"
Includes(str, token) == \E i \in DOMAIN str : str[i] = token

\* customerPhone.replace(/\D/g, ''): the digits of the phone strings of the
\* model, in their order.
NonDigitsRemoved(phone) ==
    CASE phone = "+4470" -> "4470"
      [] phone = "07 70" -> "0770"
      [] phone = "n/a" -> ""
      [] phone = "" -> ""
\* `pending-${params.customerPhone.replace(/\D/g, '')}@scteeth.temp`
PlaceholderEmail(digits) == <<"pending-", digits, PlaceholderDomain>>

\* A classification that takes every address for a placeholder.
IsPlaceholderAny(oldEmail) == oldEmail # <<>>
\* const isPlaceholderEmail = oldEmail && oldEmail.includes('@scteeth.temp')
IsPlaceholderEmail(oldEmail) ==
    /\ oldEmail # <<>>
    /\ Includes(oldEmail, PlaceholderDomain)

\* Truthiness: undefined (NoVal) and the empty string (<<>>) are falsy.
Truthy(v) == v # NoVal
\* A check that takes any email, the empty one too, for given.
TruthyTextAlways(str) == TRUE
TruthyText(str) == str # <<>>

(***************************************************************************)
(* parseDateTime (lines 39-65).  An instant is a number of minutes since   *)
(* 1970-01-01T00:00Z; the process clock reads an instant at its time-zone  *)
(* offset, in minutes east of UTC.  A time string is the sequence of its   *)
(* tokens, as "2", ":", "00", " ", "PM"; the absent and the empty string   *)
(* are <<>>.                                                               *)
(***************************************************************************)
MinutesPerDay == 24 * 60

\* new Date(dateString) for a date-only string: midnight UTC of that day,
\* here as the day's number since 1970-01-01.
DayOf(dateString) ==
    CASE dateString = "2025-12-18" -> 20440
      [] dateString = "2025-12-19" -> 20441
      [] dateString = "2026-01-01" -> 20454

\* What the process clock reads at an instant: the calendar day and the
\* minute of the day.
LocalDay(instant, offset) == (instant + offset) \div MinutesPerDay
LocalMinute(instant, offset) == (instant + offset) % MinutesPerDay

Pad2(n) == IF n < 10 THEN "0" \o ToString(n) ELSE ToString(n)

\* parseInt(text): the number of the leading digits, as {n}; NaN is {}.
\* Numerals are the one- and two-digit strings, NumeralValue their numbers.
Numerals == {ToString(n) : n \in 0..99} \cup {Pad2(n) : n \in 0..9}
NumeralValue ==
    [text \in Numerals |-> CHOOSE n \in 0..99 : text \in {ToString(n), Pad2(n)}]
ParseInt(text) ==
    IF text = <<>> THEN {}
    ELSE IF text[1] \in Numerals THEN {NumeralValue[text[1]]} ELSE {}
\* parseInt(m) || 0
OrZero(parsed) == IF parsed = {} THEN 0 ELSE CHOOSE n \in parsed : TRUE

\* str.split(sep), and the n-th piece a destructuring takes (absent: <<>>).
RECURSIVE Split(_, _)
Split(str, sep) ==
    IF ~Includes(str, sep) THEN <<str>>
    ELSE LET k == CHOOSE i \in DOMAIN str :
                     str[i] = sep /\ \A j \in 1..(i - 1) : str[j] # sep
         IN <<SubSeq(str, 1, k - 1)>> \o Split(SubSeq(str, k + 1, Len(str)), sep)
Piece(parts, n) == IF n <= Len(parts) THEN parts[n] ELSE <<>>

\* An hour conversion that adds 12 to every PM hour and keeps every AM hour.
ToHour24Naive(hours, period) ==
    IF period = <<"PM">> THEN hours + 12 ELSE hours
\* if (period === 'PM' && hours !== 12) hours += 12;
\* if (period === 'AM' && hours === 12) hours = 0;
ToHour24(hours, period) ==
    IF period = <<"PM">> /\ hours # 12 THEN hours + 12
    ELSE IF period = <<"AM">> /\ hours = 12 THEN 0
    ELSE hours

\* Lines 45-60: the hours (NaN: {}) and the minutes of a time string.
ParsedTime(timeString) ==
    IF Includes(timeString, "AM") \/ Includes(timeString, "PM")
    THEN LET parts == Split(timeString, " ")
             hm == Split(Piece(parts, 1), ":")
             h == ParseInt(Piece(hm, 1))
         IN [hours |-> {ToHour24(n, Piece(parts, 2)) : n \in h},
             minutes |-> OrZero(ParseInt(Piece(hm, 2)))]
    ELSE LET hm == Split(timeString, ":")
         IN [hours |-> ParseInt(Piece(hm, 1)),
             minutes |-> OrZero(ParseInt(Piece(hm, 2)))]

\* parseDateTime throws when the time is no string (timeString.includes),
\* or the date is invalid or the hours are NaN (toISOString of an invalid
\* Date).
ParseThrows(date, time) == date = NoVal \/ ParsedTime(time).hours = {}

\* parseDateTime(dateString, timeString) in a process at offset: setHours
\* sets the time of day on the calendar day the process clock reads at the
\* date's midnight UTC; toISOString gives the instant.
ParseDateTimeAt(date, time, offset) ==
    LET utcMidnight == DayOf(date) * MinutesPerDay
        parsed == ParsedTime(time)
        hours == CHOOSE n \in parsed.hours : TRUE
        local == LocalDay(utcMidnight, offset) * MinutesPerDay
                    + hours * 60 + parsed.minutes
    IN local - offset

(***************************************************************************)
(* The bookings the calendar provider holds when the server starts: one    *)
(* booked without an email (placeholder address) and one booked with the   *)
(* customer's own address.  No booking has uid "0".                        *)
(***************************************************************************)
InitialBookings ==
    { [id |-> 101, uid |-> "1", eventTypeId |-> CAL_EVENT_TYPE_ID, startTime |-> DayOf("2025-12-18") * MinutesPerDay + 10 * 60,
       metadata |-> "meta1", email |-> PlaceholderEmail("4470"), name |-> "Caller",
       cancelled |-> FALSE],
      [id |-> 102, uid |-> "2", eventTypeId |-> CAL_EVENT_TYPE_ID, startTime |-> DayOf("2025-12-19") * MinutesPerDay + 15 * 60,
       metadata |-> "meta2", email |-> <<"bob", "@example.com">>, name |-> "Bob",
       cancelled |-> FALSE] }

\* The bodies a client may post to /api/update-email (an absent email is <<>>):
\* corrected addresses, with or without a name, for the two bookings; a uid
\* no booking has; a body that lacks the uid and one that lacks the email.
EmailA == <<"a", "@example.com">>
EmailB == <<"b", "@example.com">>
RequestPhone == "+4470"
Body(uid, email, name) ==
    [bookingUid |-> uid, email |-> email, name |-> name, phone |-> RequestPhone]
RequestBodies ==
    { Body("1", EmailA, NoVal), Body("1", EmailB, "Ann"), Body("2", EmailA, "Ann"),
      Body("0", EmailA, NoVal), Body(NoVal, EmailA, NoVal), Body("1", <<>>, "Ann") }
\* The uid the provider gives the first booking made after the start, and
\* the bodies that correct the email of that booking, without and with a name.
FirstNewUid == ToString(Cardinality(InitialBookings) + 1)
BookedBodies == {Body(FirstNewUid, EmailB, NoVal), Body(FirstNewUid, EmailB, "Zoe")}
\* The keys bookingCorrections can get.
Keys == {body.bookingUid : body \in RequestBodies \cup BookedBodies} \ {NoVal}
NoBody == [bookingUid |-> NoVal, email |-> <<>>, name |-> NoVal, phone |-> NoVal]

VARIABLES
    calBookings,        \* the calendar provider's bookings
    nextUid,            \* the uid the provider gives its next booking
    resendConfigured,   \* RESEND_API_KEY is set
    bookingCorrections, \* the Map of line 466, as a set of [key, val] entries
    pc,                 \* per update-email request: the await it is suspended at
    req,                \* per request: req.body
    booking,            \* per request: the booking found by the lookup ({}: none)
    response,           \* per request: the HTTP response sent (status 0: none yet)
    calls,              \* per request: the remote calls issued so far
    outcomes,           \* per request: how its list and cancel calls ended
    created,            \* per request: the uids of the bookings the provider made for it
    wrote,              \* per request: the entries it set in bookingCorrections
    readBack,           \* per request: bookingCorrections.get(bookingUid) of line 632
    lastWriter,         \* per key: the request that set it last (0: none)
    lastOk              \* per key: the request answered 200 last (0: none)

corrVars == <<calBookings, nextUid, resendConfigured, bookingCorrections, pc, req,
              booking, response, calls, outcomes, created, wrote, readBack, lastWriter, lastOk>>

VARIABLES
    twilioConfigured,   \* the three TWILIO_* variables are set
    whPc,               \* the /webhook request: the await it is suspended at
    whMessage,          \* req.body.message
    whIdx,              \* the position in toolCallList of the invocation in progress
    results,            \* the handler's local results array
    whLocal,            \* bookAppointment's locals across the WhatsApp await
    whCalls,            \* the remote calls issued, as <<position, api>>
    dispatched,         \* the positions whose switch statement was entered
    whOutcomes,         \* how the remote calls ended, in the order they returned
    whResponse          \* the response sent ({}: none yet)

whVars == <<twilioConfigured, whPc, whMessage, whIdx, results, whLocal, whCalls,
            dispatched, whOutcomes, whResponse>>

VARIABLES
    tzOffset,           \* the process's time zone, in minutes east of UTC
    pdArgs,             \* the arguments of the parseDateTime call ({}: none yet)
    pdResult            \* what the call gave: it threw, or the instant

parseVars == <<tzOffset, pdArgs, pdResult>>

(***************************************************************************)
(* The Map bookingCorrections.                                             *)
(***************************************************************************)
MapHas(m, k) == \E e \in m : e.key = k
\* bookingCorrections.get(k), as the set of the values found (none: {}).
MapGet(m, k) == {e.val : e \in {x \in m : x.key = k}}

\* A set() that keeps the entry the key already has.
MapSetKeepOld(m, k, v) == IF MapHas(m, k) THEN m ELSE m \cup {[key |-> k, val |-> v]}
\* A set() that adds an entry without replacing the key's entry.
MapSetAppend(m, k, v) == m \cup {[key |-> k, val |-> v]}
\* bookingCorrections.set(k, v)
MapSet(m, k, v) == {e \in m : e.key # k} \cup {[key |-> k, val |-> v]}

(***************************************************************************)
(* POST /api/update-email (lines 469-704).                                 *)
(***************************************************************************)
NoResponse == [status |-> 0, success |-> FALSE, message |-> NoVal, booking |-> {}]
\* The message of the 200 after a rebook (line 607) and of the 200 after the
\* manual email (line 689).
RebookedMessage ==
    "Email confirmed successfully! You will receive a confirmation email from Cal.com shortly."
FallbackMessage ==
    "Email confirmed successfully! You will receive a confirmation email shortly."
\* An error response has no booking object.
NoDetails == {}
NoCalls == [list |-> 0, cancel |-> 0, create |-> 0, email |-> 0]
NoOutcomes == [list |-> "none", cancel |-> "none", email |-> "none"]

\* if (!newBookingResponse.ok) throw ..., and a rejected fetch throws by itself
CreateFailed(outcome) == outcome # "ok"

\* const correctedName = name || booking.attendees?.[0]?.name || 'Customer'
CorrectedName(body, b) ==
    IF Truthy(body.name) THEN body.name
    ELSE IF Truthy(b.name) THEN b.name ELSE "Customer"

\* The record of line 590, stored after a successful rebook.
RebookRecord(body, b, newUid) ==
    [oldBookingUid |-> body.bookingUid, newBookingUid |-> newUid,
     email |-> body.email, name |-> CorrectedName(body, b), phone |-> body.phone,
     originalEmail |-> b.email, originalName |-> b.name]

\* A fallback record that names a new booking although none was made.
FallbackRecordWithNewUid(body, b) == RebookRecord(body, b, body.bookingUid)
\* The record of line 622, stored when the booking is not rebooked.
FallbackRecord(body, b) ==
    [bookingUid |-> body.bookingUid,
     email |-> body.email, name |-> CorrectedName(body, b), phone |-> body.phone,
     originalEmail |-> b.email, originalName |-> b.name]

\* A payload that keeps the address the booking had.
NewBookingPayloadOldEmail(body, b) ==
    [eventTypeId |-> b.eventTypeId, start |-> b.startTime,
     metadata |-> IF Truthy(b.metadata) THEN b.metadata ELSE "{}",
     name |-> CorrectedName(body, b), email |-> b.email]
\* newBookingPayload (lines 559-571); metadata: booking.metadata || {}
NewBookingPayload(body, b) ==
    [eventTypeId |-> b.eventTypeId, start |-> b.startTime,
     metadata |-> IF Truthy(b.metadata) THEN b.metadata ELSE "{}",
     name |-> CorrectedName(body, b), email |-> body.email]

\* The provider's answer to a create: the uid at the top or under data.
CreateResponse(uid, shape) ==
    IF shape = "top" THEN [uid |-> uid, data |-> {}]
    ELSE [uid |-> NoVal, data |-> {[uid |-> uid]}]

\* A reading of the answer that ignores data.uid.
ResponseUidTopOnly(resp) == resp.uid
\* newBooking.uid || newBooking.data?.uid
ResponseUid(resp) ==
    IF Truthy(resp.uid) THEN resp.uid
    ELSE IF resp.data = {} THEN NoVal
    ELSE (CHOOSE d \in resp.data : TRUE).uid

\* The provider creates the booking a payload asks for.
ProviderCreate(bookings, n, payload) ==
    bookings \cup
      {[id |-> 100 + n, uid |-> ToString(n), eventTypeId |-> payload.eventTypeId,
        startTime |-> payload.start, metadata |-> payload.metadata,
        email |-> payload.email, name |-> payload.name, cancelled |-> FALSE]}

\* The provider cancels the booking of an id.
ProviderCancel(bookings, id) ==
    {IF b.id = id THEN [b EXCEPT !.cancelled = TRUE] ELSE b : b \in bookings}

\* A lookup that takes any listed booking for the one asked for.
FindAnyBooking(listed, uid) == listed
\* bookings.find(b => b.uid === bookingUid), as the set of the matches
FindBooking(listed, uid) == {b \in listed : b.uid = uid}

InFlight(r) == pc[r] \notin {"new", "done"}

\* formattedDate and formattedTime (lines 518-529): the calendar day and the
\* time of day, on a 12-hour clock, the process clock reads at the start.
FormattedDate(b) == LocalDay(b.startTime, tzOffset)
FormattedTime(b) ==
    LET m == LocalMinute(b.startTime, tzOffset)
        h == m \div 60
    IN <<IF h % 12 = 0 THEN 12 ELSE h % 12, m % 60, IF h < 12 THEN "am" ELSE "pm">>

\* A booking object that names the attendee the request gave, uncorrected.
RebookDetailsRawName(body, b) ==
    {[date |-> FormattedDate(b), time |-> FormattedTime(b), name |-> body.name]}
\* The booking object of the response after a rebook (lines 608-612).
RebookDetails(body, b) ==
    {[date |-> FormattedDate(b), time |-> FormattedTime(b),
      name |-> CorrectedName(body, b)]}
\* The booking object of the response after the manual email (lines 690-694).
FallbackDetails(body, b) ==
    {[date |-> FormattedDate(b), time |-> FormattedTime(b),
      name |-> CorrectedName(body, b)]}

\* res.status(code).json({ success, message, booking }): the request is over.
Respond(r, code, success, message, details) ==
    /\ response' = [response EXCEPT ![r] =
                       [status |-> code, success |-> success, message |-> message,
                        booking |-> details]]
    /\ pc' = [pc EXCEPT ![r] = "done"]
    /\ lastOk' = IF code = 200 THEN [lastOk EXCEPT ![req[r].bookingUid] = r] ELSE lastOk

\* Lines 621-695 up to the next await: store the correction, then send the
\* manual email when Resend is configured, else answer 200.  c: the calls
\* the request has issued so far.
StoreAndNotify(r, b, c) ==
    LET rec == FallbackRecord(req[r], b)
        key == req[r].bookingUid
        m == MapSet(bookingCorrections, key, rec)
    IN /\ bookingCorrections' = m
       /\ wrote' = [wrote EXCEPT ![r] = Append(@, [key |-> key, val |-> rec])]
       /\ lastWriter' = [lastWriter EXCEPT ![key] = r]
       /\ readBack' = [readBack EXCEPT ![r] = MapGet(m, key)]
       /\ IF resendConfigured
          THEN /\ calls' = [calls EXCEPT ![r] = [c EXCEPT !.email = @ + 1]]
               /\ pc' = [pc EXCEPT ![r] = "awaitEmail"]
               /\ UNCHANGED <<response, lastOk>>
          ELSE /\ calls' = [calls EXCEPT ![r] = c]
               /\ Respond(r, 200, TRUE, FallbackMessage,
                          FallbackDetails(req[r], b))

\* Lines 473-490: the request arrives; 400 when a field is missing, else the
\* booking list is fetched.  Requests are numbered in the order they arrive.
ReceiveBody(r, body) ==
    /\ pc[r] = "new"
    /\ \A q \in Requests : q < r => pc[q] # "new"
    /\ req' = [req EXCEPT ![r] = body]
    /\ IF ~Truthy(body.bookingUid) \/ ~TruthyText(body.email)
       THEN /\ Respond(r, 400, FALSE, "Booking ID and email are required", NoDetails)
            /\ UNCHANGED calls
       ELSE /\ pc' = [pc EXCEPT ![r] = "awaitList"]
            /\ calls' = [calls EXCEPT ![r].list = @ + 1]
            /\ UNCHANGED <<response, lastOk>>
    /\ UNCHANGED <<calBookings, nextUid, resendConfigured, bookingCorrections,
                   booking, outcomes, created, wrote, readBack, lastWriter>>
    /\ UNCHANGED <<whVars, parseVars>>

Receive(r) == \E body \in RequestBodies : ReceiveBody(r, body)

\* Lines 490-543 and, for a real email, 621-695: the booking list returns.
ListReturns(r) ==
    /\ pc[r] = "awaitList"
    /\ \E outcome \in Outcomes, listsCancelled \in BOOLEAN :
         LET listed == {b \in calBookings : listsCancelled \/ ~b.cancelled}
             found == FindBooking(listed, req[r].bookingUid)
         IN /\ outcomes' = [outcomes EXCEPT ![r].list = outcome]
            /\ CASE outcome = "reject" ->
                      /\ Respond(r, 500, FALSE, "Server error", NoDetails)
                      /\ UNCHANGED <<booking, calls, bookingCorrections, wrote,
                                     readBack, lastWriter>>
                 [] outcome = "notok" ->
                      /\ Respond(r, 404, FALSE, "Unable to verify booking", NoDetails)
                      /\ UNCHANGED <<booking, calls, bookingCorrections, wrote,
                                     readBack, lastWriter>>
                 [] outcome = "ok" /\ found = {} ->
                      /\ Respond(r, 404, FALSE, "Booking not found", NoDetails)
                      /\ UNCHANGED <<booking, calls, bookingCorrections, wrote,
                                     readBack, lastWriter>>
                 [] outcome = "ok" /\ found # {} ->
                      LET b == CHOOSE x \in found : TRUE
                      IN /\ booking' = [booking EXCEPT ![r] = {b}]
                         /\ IF IsPlaceholderEmail(b.email)
                            THEN /\ pc' = [pc EXCEPT ![r] = "awaitCancel"]
                                 /\ calls' = [calls EXCEPT ![r].cancel = @ + 1]
                                 /\ UNCHANGED <<response, lastOk, bookingCorrections,
                                                wrote, readBack, lastWriter>>
                            ELSE StoreAndNotify(r, b, calls[r])
    /\ UNCHANGED <<calBookings, nextUid, resendConfigured, req, created>>
    /\ UNCHANGED <<whVars, parseVars>>

\* Lines 543-577 and, when the cancel fetch itself fails, 615-695.
CancelReturns(r) ==
    /\ pc[r] = "awaitCancel"
    /\ \E outcome \in Outcomes :
         LET b == CHOOSE x \in booking[r] : TRUE
         IN /\ outcomes' = [outcomes EXCEPT ![r].cancel = outcome]
            /\ IF outcome = "reject"
               THEN \* the rejected fetch throws into the catch of line 615
                    /\ StoreAndNotify(r, b, calls[r])
                    /\ UNCHANGED calBookings
               ELSE \* a non-success status is logged and the rebooking goes on
                    /\ calBookings' = IF outcome = "ok"
                                      THEN ProviderCancel(calBookings, b.id)
                                      ELSE calBookings
                    /\ pc' = [pc EXCEPT ![r] = "awaitCreate"]
                    /\ calls' = [calls EXCEPT ![r].create = @ + 1]
                    /\ UNCHANGED <<response, lastOk, bookingCorrections, wrote,
                                   readBack, lastWriter>>
    /\ UNCHANGED <<nextUid, resendConfigured, req, booking, created>>
    /\ UNCHANGED <<whVars, parseVars>>

\* Lines 577-613 and, when the create fails, 615-695.
CreateReturns(r) ==
    /\ pc[r] = "awaitCreate"
    /\ \E outcome \in Outcomes, shape \in {"top", "data"} :
         LET b == CHOOSE x \in booking[r] : TRUE
         IN /\ UNCHANGED outcomes
            /\ IF CreateFailed(outcome)
               THEN \* throw new Error('Failed to rebook ...'), or the fetch's own error
                    /\ StoreAndNotify(r, b, calls[r])
                    /\ UNCHANGED <<calBookings, nextUid, created>>
               ELSE LET newBooking == CreateResponse(ToString(nextUid), shape)
                        rec == RebookRecord(req[r], b, ResponseUid(newBooking))
                        key == req[r].bookingUid
                    IN /\ calBookings' = ProviderCreate(calBookings, nextUid,
                                                        NewBookingPayload(req[r], b))
                       /\ nextUid' = nextUid + 1
                       /\ created' = [created EXCEPT ![r] = @ \cup {ToString(nextUid)}]
                       /\ bookingCorrections' = MapSet(bookingCorrections, key, rec)
                       /\ wrote' = [wrote EXCEPT ![r] =
                                       Append(@, [key |-> key, val |-> rec])]
                       /\ lastWriter' = [lastWriter EXCEPT ![key] = r]
                       /\ Respond(r, 200, TRUE,
                                  RebookedMessage,
                                  RebookDetails(req[r], b))
                       /\ UNCHANGED <<calls, readBack>>
    /\ UNCHANGED <<resendConfigured, req, booking>>
    /\ UNCHANGED <<whVars, parseVars>>

\* An email step that answers 500 when the send did not succeed.
EmailAnswerStrict(r, outcome) ==
    /\ IF outcome = "ok"
       THEN Respond(r, 200, TRUE, FallbackMessage,
                    FallbackDetails(req[r], CHOOSE x \in booking[r] : TRUE))
       ELSE Respond(r, 500, FALSE, "Server error", NoDetails)
    /\ UNCHANGED <<calBookings, nextUid, resendConfigured, bookingCorrections, req,
                   booking, calls, created, wrote, readBack, lastWriter>>
    /\ UNCHANGED <<whVars, parseVars>>
\* An email step that sends no response when the send is rejected.
EmailAnswerDropped(r, outcome) ==
    /\ IF outcome = "reject"
       THEN /\ pc' = [pc EXCEPT ![r] = "dropped"]
            /\ UNCHANGED <<response, lastOk>>
       ELSE Respond(r, 200, TRUE, FallbackMessage,
                    FallbackDetails(req[r], CHOOSE x \in booking[r] : TRUE))
    /\ UNCHANGED <<calBookings, nextUid, resendConfigured, bookingCorrections, req,
                   booking, calls, created, wrote, readBack, lastWriter>>
    /\ UNCHANGED <<whVars, parseVars>>
\* Lines 658-695: the Resend call has returned with outcome; an ok send is
\* logged (line 675), a non-success status is logged (line 678), an error is
\* caught and logged (line 681), and the answer is the 200 of line 687.
EmailAnswer(r, outcome) ==
    /\ Respond(r, 200, TRUE, FallbackMessage,
               FallbackDetails(req[r], CHOOSE x \in booking[r] : TRUE))
    /\ UNCHANGED <<calBookings, nextUid, resendConfigured, bookingCorrections, req,
                   booking, calls, created, wrote, readBack, lastWriter>>
    /\ UNCHANGED <<whVars, parseVars>>

\* The Resend call returns.
EmailReturns(r) ==
    /\ pc[r] = "awaitEmail"
    /\ \E outcome \in Outcomes : EmailAnswer(r, outcome)
    /\ UNCHANGED outcomes

\* The same step, with the outcome of the send kept in outcomes.
EmailReturnsObserved(r) ==
    /\ pc[r] = "awaitEmail"
    /\ \E outcome \in Outcomes :
         /\ EmailAnswer(r, outcome)
         /\ outcomes' = [outcomes EXCEPT ![r].email = outcome]

(***************************************************************************)
(* POST /webhook (lines 374-462) and the four handlers (lines 127-371).    *)
(***************************************************************************)
\* The arguments object of a tool call.
Params(date, time, email, phone) ==
    [date |-> date, time |-> time, newDate |-> date, newTime |-> time,
     customerName |-> "Ann", customerEmail |-> email, customerPhone |-> phone,
     bookingUid |-> "1"]
TwoPM == <<"2", ":", "00", " ", "PM">>
GoodParams == Params("2025-12-18", TwoPM, EmailA, "+4470")
NoEmailParams == Params("2025-12-18", TwoPM, <<>>, "+4470")
NoTimeParams == Params("2025-12-18", <<>>, EmailA, "+4470")

\* toolCall.function: absent ({}), or a name with its arguments (absent: {}).
FunctionOf(name, args) == {[name |-> name, arguments |-> args]}
KnownFunctions ==
    {"getAvailableSlots", "bookAppointment", "cancelAppointment",
     "rescheduleAppointment"}

\* The invocations a batch may hold: one of another kind, one of kind
\* "function" without a function descriptor, one without arguments, calls of
\* the four operations with well- and ill-formed arguments, an unknown name.
ToolCallShapes ==
    { [type |-> "ping", func |-> {}],
      [type |-> "function", func |-> {}],
      [type |-> "function", func |-> FunctionOf("getAvailableSlots", {})],
      [type |-> "function", func |-> FunctionOf("getAvailableSlots", {GoodParams})],
      [type |-> "function", func |-> FunctionOf("bookAppointment", {GoodParams})],
      [type |-> "function", func |-> FunctionOf("bookAppointment", {NoEmailParams})],
      [type |-> "function", func |-> FunctionOf("bookAppointment", {NoTimeParams})],
      [type |-> "function", func |-> FunctionOf("cancelAppointment", {GoodParams})],
      [type |-> "function", func |-> FunctionOf("rescheduleAppointment", {GoodParams})],
      [type |-> "function", func |-> FunctionOf("rescheduleAppointment", {NoTimeParams})],
      [type |-> "function", func |-> FunctionOf("transferCall", {GoodParams})] }
ToolCallIds == {"a", "b"}
ToolCalls ==
    {[id |-> i, type |-> sh.type, func |-> sh.func] :
        i \in ToolCallIds, sh \in ToolCallShapes}
Batches == UNION {[1..n -> ToolCalls] : n \in 0..MaxBatch}

\* req.body.message: absent, of another type (without a list, or with the
\* list of a tool-calls message), or tool-calls with its list (absent: {}).
NoMessage == [present |-> FALSE, type |-> NoVal, toolCallList |-> {}]
StatusUpdateCalls ==
    << [id |-> "a", type |-> "function",
        func |-> FunctionOf("getAvailableSlots", {GoodParams})] >>
Messages ==
    {NoMessage,
     [present |-> TRUE, type |-> "status-update", toolCallList |-> {}],
     [present |-> TRUE, type |-> "status-update", toolCallList |-> {StatusUpdateCalls}],
     [present |-> TRUE, type |-> "tool-calls", toolCallList |-> {}]}
    \cup {[present |-> TRUE, type |-> "tool-calls", toolCallList |-> {b}] :
             b \in Batches}
ToolCallList == IF whMessage.toolCallList = {} THEN <<>>
                ELSE CHOOSE l \in whMessage.toolCallList : TRUE

\* parseDateTime(dateString, timeString) in this process.
ParseDateTime(date, time) == ParseDateTimeAt(date, time, tzOffset)

\* formatSlots: each slot's London time of day, in minutes, on a 12-hour clock.
FormatSlots(slots) ==
    [k \in DOMAIN slots |->
        LET h == slots[k] \div 60
        IN <<IF h % 12 = 0 THEN 12 ELSE h % 12, slots[k] % 60,
             IF h < 12 THEN "AM" ELSE "PM">>]
\* data.slots of the provider's answer, as a set of [date, times] entries:
\* no key at all, the asked date with no slot, with two slots, another date.
ProviderSlots ==
    { {}, {[date |-> "2025-12-18", times |-> <<>>]},
      {[date |-> "2025-12-18", times |-> <<540, 870>>]},
      {[date |-> "2025-12-19", times |-> <<600>>]} }
\* const dateSlots = data.slots?.[params.date] || []
DateSlots(slots, date) ==
    IF \E e \in slots : e.date = date
    THEN (CHOOSE e \in slots : e.date = date).times
    ELSE <<>>

\* The results the dispatcher and the handlers build; a message is the
\* sequence of its parts.
Apology == "I apologize, but "
\* A result for an unknown name whose message repeats the name.
UnknownResultNaming(name) ==
    [success |-> FALSE, error |-> <<"Unknown function: ", name>>,
     message |-> <<Apology, "I am not able to perform ", name>>]
\* The result of the default branch (lines 431-435).
UnknownResult(name) ==
    [success |-> FALSE, error |-> <<"Unknown function: ", name>>,
     message |-> <<Apology, "I am not able to perform that action right now.">>]
CatchResult ==
    [success |-> FALSE, error |-> <<"error.message">>,
     message |-> <<Apology, "I encountered an unexpected error. Please try again.">>]
\* A handler that reports its failed call as a success.
HandlerFailureAsSuccess(error, message) ==
    [success |-> TRUE, error |-> <<error>>, message |-> message]
\* The failure results of the handlers (lines 140, 175, 232, 282, 307, 321,
\* 351, 365).
HandlerFailure(error, message) ==
    [success |-> FALSE, error |-> <<error>>, message |-> message]
\* A slots result that takes a date without slots for a failure.
SlotsResultEmptyFails(formatted, date) ==
    IF Len(formatted) = 0
    THEN [success |-> FALSE, error |-> <<"No slots">>,
          message |-> <<Apology, "I do not have any available appointments.">>]
    ELSE [success |-> TRUE, slots |-> formatted,
          message |-> <<"I have the following times available on ", date, formatted>>]
\* The success results of lines 157-171.
SlotsResult(formatted, date) ==
    [success |-> TRUE, slots |-> formatted,
     message |-> IF Len(formatted) = 0
                 THEN <<"I do not have any available appointments on ", date,
                        ". Would you like to try a different date?">>
                 ELSE <<"I have the following times available on ", date,
                        SubSeq(formatted, 1, IF Len(formatted) < 5 THEN Len(formatted) ELSE 5)>>]
\* A booking result whose success follows the messaging send.
BookResultNeedsSend(uid, needsEmail, sent) ==
    [success |-> sent, bookingUid |-> uid,
     emailConfirmLink |-> IF needsEmail THEN <<"confirm-email.html?booking=", uid>>
                          ELSE <<>>,
     whatsappSent |-> sent,
     message |-> <<"Perfect!">>]
\* The result of lines 269-278.
BookResult(uid, needsEmail, sent) ==
    [success |-> TRUE, bookingUid |-> uid,
     emailConfirmLink |-> IF needsEmail THEN <<"confirm-email.html?booking=", uid>>
                          ELSE <<>>,
     whatsappSent |-> sent,
     message |-> IF needsEmail THEN <<"Perfect! ... WhatsApp message with a link">>
                 ELSE <<"Perfect! ... email and WhatsApp confirmations">>]
\* A success result without a message.
SimpleSuccessBare(message) == [success |-> TRUE]
\* The success results of lines 313 and 357.
SimpleSuccess(message) == [success |-> TRUE, message |-> message]

\* What a handler does up to its first await: it throws before its try (no
\* arguments object), returns a failure from its catch, or issues its call.
HandlerStart(name, args) ==
    IF args = {}
    THEN [kind |-> "threw", pc |-> "none", result |-> CatchResult]
    ELSE LET p == CHOOSE x \in args : TRUE
         IN CASE name = "getAvailableSlots" ->
                   [kind |-> "await", pc |-> "awaitSlots", result |-> CatchResult]
              [] name = "bookAppointment" ->
                   IF \/ ParseThrows(p.date, p.time)
                      \/ (~TruthyText(p.customerEmail) /\ p.customerPhone = NoVal)
                   THEN [kind |-> "result", pc |-> "none",
                         result |-> HandlerFailure("error.message",
                            <<Apology, "I encountered an error while booking your appointment. Please try again.">>)]
                   ELSE [kind |-> "await", pc |-> "awaitBook", result |-> CatchResult]
              [] name = "cancelAppointment" ->
                   [kind |-> "await", pc |-> "awaitCancelAppt", result |-> CatchResult]
              [] name = "rescheduleAppointment" ->
                   IF ParseThrows(p.newDate, p.newTime)
                   THEN [kind |-> "result", pc |-> "none",
                         result |-> HandlerFailure("error.message",
                            <<Apology, "I encountered an error while rescheduling your appointment.">>)]
                   ELSE [kind |-> "await", pc |-> "awaitReschedule",
                         result |-> CatchResult]

\* results.push({ toolCallId: id, result })
Push(st, id, result) ==
    [st EXCEPT !.results = Append(@, [toolCallId |-> id, result |-> result])]

\* The for loop of lines 398-458 from position i on, up to the next await, the
\* response (line 461) or the TypeError of line 406, which no try encloses.
RECURSIVE Dispatch(_, _, _)
Dispatch(list, i, st) ==
    IF i > Len(list) THEN [st EXCEPT !.pc = "done", !.idx = i]
    ELSE LET tc == list[i]
         IN IF tc.type # "function" THEN Dispatch(list, i + 1, st)
            ELSE IF tc.func = {} THEN [st EXCEPT !.pc = "threw", !.idx = i]
            ELSE LET f == CHOOSE x \in tc.func : TRUE
                     entered == [st EXCEPT !.dispatched = @ \cup {i}]
                 IN IF f.name \notin KnownFunctions
                    THEN Dispatch(list, i + 1,
                                  Push(entered, tc.id, UnknownResult(f.name)))
                    ELSE LET h == HandlerStart(f.name, f.arguments)
                         IN IF h.kind = "await"
                            THEN [entered EXCEPT !.pc = h.pc, !.idx = i,
                                                 !.calls = Append(@, <<i, "calendar">>)]
                            ELSE Dispatch(list, i + 1, Push(entered, tc.id, h.result))

\* The handler's progress, and the variables taking a new progress.
Progress ==
    [pc |-> whPc, idx |-> whIdx, results |-> results, calls |-> whCalls,
     dispatched |-> dispatched]
Become(st) ==
    /\ whPc' = st.pc
    /\ whIdx' = st.idx
    /\ results' = st.results
    /\ whCalls' = st.calls
    /\ dispatched' = st.dispatched
    /\ whResponse' = IF st.pc = "done" THEN {[results |-> st.results]} ELSE whResponse

\* The remote call in progress has returned: how it ended and, for the slots
\* call, what the provider answered.
Observe(api, outcome, answer) ==
    whOutcomes' = Append(whOutcomes, [idx |-> whIdx, api |-> api,
                                      outcome |-> outcome, answer |-> answer])

\* A handler that issues its calendar call again when the result is a failure.
ContinueRetrying(result) ==
    IF result.success
    THEN Become(Dispatch(ToolCallList, whIdx + 1,
                         Push(Progress, ToolCallList[whIdx].id, result)))
    ELSE Become([Progress EXCEPT !.calls = Append(@, <<whIdx, "calendar">>)])
\* A loop that goes on to the next invocation without the result pushed.
ContinueUnrecorded(result) ==
    Become(Dispatch(ToolCallList, whIdx + 1, Progress))
\* The handler of the invocation in progress has returned result: push it and
\* go on with the next invocation.
Continue(result) ==
    Become(Dispatch(ToolCallList, whIdx + 1,
                    Push(Progress, ToolCallList[whIdx].id, result)))
CurrentParams ==
    CHOOSE p \in (CHOOSE f \in ToolCallList[whIdx].func : TRUE).arguments : TRUE

\* A check that does not look at the type of the message.
IgnoredWithoutType(m) ==
    \/ ~m.present
    \/ m.toolCallList = {}
    \/ \E l \in m.toolCallList : Len(l) = 0
\* The checks of lines 380 and 387: the message is absent or not of type
\* tool-calls, or its toolCallList is absent or empty.
Ignored(m) ==
    \/ ~m.present
    \/ m.type # "tool-calls"
    \/ m.toolCallList = {}
    \/ \E l \in m.toolCallList : Len(l) = 0

\* Lines 374-398: the request arrives with message m.
Arrive(m) ==
    /\ whMessage' = m
    /\ IF Ignored(m)
       THEN /\ whPc' = "done"
            /\ whResponse' = {[results |-> <<>>]}
            /\ UNCHANGED <<whIdx, results, whCalls, dispatched>>
       ELSE Become(Dispatch(CHOOSE l \in m.toolCallList : TRUE, 1, Progress))
    /\ UNCHANGED <<twilioConfigured, whLocal, whOutcomes>>
    /\ UNCHANGED <<corrVars, parseVars>>

WebhookReceive ==
    /\ whPc = "new"
    /\ \E m \in Messages : Arrive(m)

\* handleGetAvailableSlots, lines 136-180: the slots call returns.
SlotsReturn ==
    /\ whPc = "awaitSlots"
    /\ \E outcome \in Outcomes, slots \in ProviderSlots :
         /\ Observe("calendar", outcome, IF outcome = "ok" THEN slots ELSE {})
         /\ Continue(
                 CASE outcome = "reject" ->
                         HandlerFailure("error.message",
                            <<Apology, "I am having trouble checking the calendar. Please try again.">>)
                    [] outcome = "notok" ->
                         HandlerFailure("Failed to get available slots",
                            <<Apology, "I am having trouble checking the calendar right now. Please try again in a moment.">>)
                    [] outcome = "ok" ->
                         SlotsResult(FormatSlots(DateSlots(slots, CurrentParams.date)),
                                     CurrentParams.date))
    /\ UNCHANGED <<twilioConfigured, whMessage, whLocal>>
    /\ UNCHANGED <<corrVars, parseVars>>

\* handleBookAppointment, lines 213-261 (and to 278 when Twilio is not
\* configured): the create call returns.
BookReturns ==
    /\ whPc = "awaitBook"
    /\ \E outcome \in Outcomes, shape \in {"top", "data"} :
         LET p == CurrentParams
             needsEmail == ~TruthyText(p.customerEmail)
             email == IF needsEmail
                      THEN PlaceholderEmail(NonDigitsRemoved(p.customerPhone))
                      ELSE p.customerEmail
             payload == [eventTypeId |-> CAL_EVENT_TYPE_ID,
                         start |-> ParseDateTime(p.date, p.time),
                         metadata |-> "{}", name |-> p.customerName, email |-> email]
             uid == ResponseUid(CreateResponse(ToString(nextUid), shape))
         IN /\ Observe("calendar", outcome, {})
            /\ CASE outcome = "reject" ->
                      /\ Continue(HandlerFailure("error.message",
                            <<Apology, "I encountered an error while booking your appointment. Please try again.">>))
                      /\ UNCHANGED <<calBookings, nextUid, whLocal>>
                 [] outcome = "notok" ->
                      /\ Continue(HandlerFailure("errorText",
                            <<Apology, "I was unable to create the booking. The time slot may no longer be available. Would you like to try a different time?">>))
                      /\ UNCHANGED <<calBookings, nextUid, whLocal>>
                 [] outcome = "ok" ->
                      /\ calBookings' = ProviderCreate(calBookings, nextUid, payload)
                      /\ nextUid' = nextUid + 1
                      /\ IF twilioConfigured
                         THEN /\ whPc' = "awaitWhatsApp"
                              /\ whLocal' = [bookingUid |-> uid, needsEmail |-> needsEmail]
                              /\ whCalls' = Append(whCalls, <<whIdx, "messaging">>)
                              /\ UNCHANGED <<whIdx, results, dispatched, whResponse>>
                         ELSE \* sendWhatsAppMessage returns at line 88 without a call
                              /\ Continue(BookResult(uid, needsEmail, FALSE))
                              /\ UNCHANGED whLocal
    /\ UNCHANGED <<twilioConfigured, whMessage>>
    /\ UNCHANGED <<resendConfigured, bookingCorrections, pc, req, booking, response,
                   calls, outcomes, created, wrote, readBack, lastWriter, lastOk>>
    /\ UNCHANGED parseVars

\* sendWhatsAppMessage, lines 102-123, and handleBookAppointment, lines 263-278.
WhatsAppReturns ==
    /\ whPc = "awaitWhatsApp"
    /\ \E outcome \in Outcomes :
         /\ Observe("messaging", outcome, {})
         /\ Continue(BookResult(whLocal.bookingUid, whLocal.needsEmail, outcome = "ok"))
    /\ whLocal' = [bookingUid |-> NoVal, needsEmail |-> FALSE]
    /\ UNCHANGED <<twilioConfigured, whMessage>>
    /\ UNCHANGED <<corrVars, parseVars>>

\* handleCancelAppointment, lines 294-326: the cancel call returns.
CancelApptReturns ==
    /\ whPc = "awaitCancelAppt"
    /\ \E outcome \in Outcomes :
         /\ Observe("calendar", outcome, {})
         /\ Continue(
                 CASE outcome = "reject" ->
                         HandlerFailure("error.message",
                            <<Apology, "I encountered an error while cancelling your appointment.">>)
                    [] outcome = "notok" ->
                         HandlerFailure("errorText",
                            <<Apology, "I was unable to cancel that appointment. Could you provide your booking confirmation number?">>)
                    [] outcome = "ok" ->
                         SimpleSuccess(<<"I have cancelled your appointment.">>))
    /\ UNCHANGED <<twilioConfigured, whMessage, whLocal>>
    /\ UNCHANGED <<corrVars, parseVars>>

\* handleRescheduleAppointment, lines 335-370: the reschedule call returns.
RescheduleReturns ==
    /\ whPc = "awaitReschedule"
    /\ \E outcome \in Outcomes :
         /\ Observe("calendar", outcome, {})
         /\ Continue(
                 CASE outcome = "reject" ->
                         HandlerFailure("error.message",
                            <<Apology, "I encountered an error while rescheduling your appointment.">>)
                    [] outcome = "notok" ->
                         HandlerFailure("errorText",
                            <<Apology, "I was unable to reschedule that appointment. The new time may not be available.">>)
                    [] outcome = "ok" ->
                         SimpleSuccess(<<"Perfect! I have rescheduled your appointment.">>))
    /\ UNCHANGED <<twilioConfigured, whMessage, whLocal>>
    /\ UNCHANGED <<corrVars, parseVars>>

InitWebhook ==
    /\ twilioConfigured \in BOOLEAN
    /\ whPc = "new"
    /\ whMessage = NoMessage
    /\ whIdx = 0
    /\ results = <<>>
    /\ whLocal = [bookingUid |-> NoVal, needsEmail |-> FALSE]
    /\ whCalls = <<>>
    /\ dispatched = {}
    /\ whOutcomes = <<>>
    /\ whResponse = {}

NextWebhook ==
    \/ WebhookReceive
    \/ SlotsReturn
    \/ BookReturns
    \/ WhatsAppReturns
    \/ CancelApptReturns
    \/ RescheduleReturns

\* The same arrival, when the server is given one request at a time.
ReceiveSerial(r) ==
    /\ \A q \in Requests : ~InFlight(q)
    /\ Receive(r)

InitCorrection ==
    /\ calBookings = InitialBookings
    /\ nextUid = Cardinality(InitialBookings) + 1
    /\ resendConfigured \in BOOLEAN
    /\ bookingCorrections = {}
    /\ pc = [r \in Requests |-> "new"]
    /\ req = [r \in Requests |-> NoBody]
    /\ booking = [r \in Requests |-> {}]
    /\ response = [r \in Requests |-> NoResponse]
    /\ calls = [r \in Requests |-> NoCalls]
    /\ outcomes = [r \in Requests |-> NoOutcomes]
    /\ created = [r \in Requests |-> {}]
    /\ wrote = [r \in Requests |-> <<>>]
    /\ readBack = [r \in Requests |-> {}]
    /\ lastWriter = [k \in Keys |-> 0]
    /\ lastOk = [k \in Keys |-> 0]

\* The process runs on UTC; no parseDateTime call is observed.
InitParse ==
    /\ tzOffset = 0
    /\ pdArgs = {}
    /\ pdResult = {}

Init == InitCorrection /\ InitWebhook /\ InitParse

vars == <<corrVars, whVars, parseVars>>

Next ==
    \E r \in Requests :
       \/ Receive(r)
       \/ ListReturns(r)
       \/ CancelReturns(r)
       \/ CreateReturns(r)
       \/ EmailReturns(r)

NextSerial ==
    \E r \in Requests :
       \/ ReceiveSerial(r)
       \/ ListReturns(r)
       \/ CancelReturns(r)
       \/ CreateReturns(r)
       \/ EmailReturnsObserved(r)

\* Update-email requests interleaved at their awaits.
Spec == Init /\ [][Next]_vars

\* Update-email requests one after the other.
SpecSerial == Init /\ [][NextSerial]_vars

\* Every remote call a request awaits returns or errors in the end: the
\* continuation of each await (lines 490, 543, 573, 658) runs.
RemoteCallsReturn ==
    \A r \in Requests :
        /\ WF_vars(ListReturns(r))
        /\ WF_vars(CancelReturns(r))
        /\ WF_vars(CreateReturns(r))
        /\ WF_vars(EmailReturns(r))
\* Update-email requests interleaved at their awaits, every remote call
\* returning in the end.
SpecFair == Init /\ [][Next]_vars /\ RemoteCallsReturn

\* One /webhook request.
SpecWebhook == Init /\ [][NextWebhook]_vars

(***************************************************************************)
(* parseDateTime alone: one call, in a process of any time zone.           *)
(***************************************************************************)
\* The time strings a caller passes, with the parts they were written from:
\* "h AM" and "h:mm PM" for the twelve hours, "HH:MM" for the 24 hours, the
\* absent time and a word.
Time12(h, mm, period) ==
    <<ToString(h)>>
       \o (IF mm = {} THEN <<>> ELSE <<":", Pad2(CHOOSE m \in mm : TRUE)>>)
       \o <<" ", period>>
Time24(h, m) == <<Pad2(h), ":", Pad2(m)>>
ParseMinutes == {0, 5, 30, 59}
ParseTimes ==
    {[kind |-> "12", h |-> h, mm |-> mm, period |-> p, text |-> Time12(h, mm, p)] :
        h \in 1..12, mm \in {{}} \cup {{m} : m \in ParseMinutes}, p \in {"AM", "PM"}}
    \cup {[kind |-> "24", h |-> h, mm |-> {m}, period |-> "", text |-> Time24(h, m)] :
             h \in 0..23, m \in ParseMinutes}
    \cup {[kind |-> "bad", h |-> 0, mm |-> {}, period |-> "", text |-> t] :
             t \in {<<>>, <<"noon">>}}
ParseDates == {"2025-12-18", "2025-12-19", "2026-01-01"}
\* Time-zone offsets from UTC-12:00 to UTC+14:00.
Offsets == {-720, -300, -60, 0, 60, 330, 840}

\* A caller calls parseDateTime(date, time.text).
ParseCall ==
    /\ pdArgs = {}
    /\ \E date \in ParseDates, time \in ParseTimes :
         /\ pdArgs' = {[date |-> date, time |-> time]}
         /\ pdResult' =
               IF ParseThrows(date, time.text)
               THEN {[threw |-> TRUE, instant |-> 0, hours |-> {}, minutes |-> 0]}
               ELSE {[threw |-> FALSE, instant |-> ParseDateTime(date, time.text),
                      hours |-> ParsedTime(time.text).hours,
                      minutes |-> ParsedTime(time.text).minutes]}
    /\ UNCHANGED <<tzOffset, corrVars, whVars>>

InitAnyZone ==
    /\ InitCorrection
    /\ InitWebhook
    /\ tzOffset \in Offsets
    /\ pdArgs = {}
    /\ pdResult = {}

SpecParse == InitAnyZone /\ [][ParseCall]_vars

\* A /webhook request of one invocation and an update-email request, each
\* suspended at its awaits while the other runs.
ReceiveAlone(r) ==
    /\ \A q \in Requests : pc[q] = "new"
    /\ Receive(r)
WebhookReceiveSingle ==
    /\ whPc = "new"
    /\ \E m \in Messages :
          /\ \E l \in m.toolCallList : Len(l) = 1
          /\ Arrive(m)
NextServer ==
    \/ WebhookReceiveSingle
    \/ SlotsReturn
    \/ BookReturns
    \/ WhatsAppReturns
    \/ CancelApptReturns
    \/ RescheduleReturns
    \/ \E r \in Requests :
          \/ ReceiveAlone(r)
          \/ ListReturns(r)
          \/ CancelReturns(r)
          \/ CreateReturns(r)
          \/ EmailReturnsObserved(r)
SpecServer == Init /\ [][NextServer]_vars

(***************************************************************************)
(* A booking made by bookAppointment and then corrected: one /webhook      *)
(* request with one bookAppointment, for any customer email and phone, and *)
(* after it an update-email request for the booking it made.               *)
(***************************************************************************)
\* params.customerEmail: absent or empty, an address of the customer's, and
\* addresses of the customer's that contain the reserved domain.
BookingEmails ==
    { <<>>, EmailA, <<"ann", PlaceholderDomain>>,
      <<"ann", PlaceholderDomain, ".example.com">> }
\* params.customerPhone: with a prefix, with a space, without a digit, empty.
BookingPhones == {"+4470", "07 70", "n/a", ""}
\* params.customerName: given or absent.
BookingNames == {"Ann", NoVal}
BookingMessage(email, phone, name) ==
    [present |-> TRUE, type |-> "tool-calls",
     toolCallList |->
        { << [id |-> "a", type |-> "function",
              func |-> FunctionOf("bookAppointment",
                                  {[Params("2025-12-18", TwoPM, email, phone)
                                      EXCEPT !.customerName = name]})] >> }]
BookingArrives ==
    /\ whPc = "new"
    /\ \E email \in BookingEmails, phone \in BookingPhones, name \in BookingNames :
          Arrive(BookingMessage(email, phone, name))
\* The correction of the booking arrives when the /webhook request is over.
ReceiveBooked(r) ==
    /\ whPc = "done"
    /\ \A q \in Requests : pc[q] = "new"
    /\ \E body \in BookedBodies : ReceiveBody(r, body)
NextBooking ==
    \/ BookingArrives
    \/ BookReturns
    \/ WhatsAppReturns
    \/ \E r \in Requests :
          \/ ReceiveBooked(r)
          \/ ListReturns(r)
          \/ CancelReturns(r)
          \/ CreateReturns(r)
          \/ EmailReturns(r)
SpecBooking == Init /\ [][NextBooking]_vars

(***************************************************************************)
(* Properties of the tool dispatcher.                                      *)
(***************************************************************************)
\* The request is a tool-calls message with a non-empty toolCallList.
IsBatchRequest ==
    /\ whMessage.present
    /\ whMessage.type = "tool-calls"
    /\ Len(ToolCallList) > 0
\* The request is over: answered, or ended by an exception no try encloses.
WebhookOver == whPc \in {"done", "threw"}
IsFunctionCall(tc) == tc.type = "function"
FunctionCalls == SelectSeq(ToolCallList, IsFunctionCall)
FunctionIds == [k \in DOMAIN FunctionCalls |-> FunctionCalls[k].id]
SentResults == (CHOOSE resp \in whResponse : TRUE).results
SentIds == [k \in DOMAIN SentResults |-> SentResults[k].toolCallId]
Apologies ==
    {UnknownResult("x").message, CatchResult.message}
\* The invocation cannot be run: no function descriptor, no arguments object,
\* or a name that is none of the four operations.
Unrunnable(tc) ==
    \/ tc.func = {}
    \/ \E f \in tc.func : f.arguments = {} \/ f.name \notin KnownFunctions

\* What holds of every request that is answered: one result per invocation of
\* type "function", in the order of the list.
AnsweredInOrder ==
    (whPc = "done" /\ IsBatchRequest) =>
       /\ SentIds = FunctionIds
       /\ \A i \in DOMAIN ToolCallList :
             IsFunctionCall(ToolCallList[i]) => i \in dispatched

\* C1 (as claimed): every tool-calls request with a non-empty list gets a
\* results sequence with one entry per invocation of type "function", the
\* k-th entry carrying the id of the k-th such invocation.
C1_OneResultPerFunctionCall ==
    (WebhookOver /\ IsBatchRequest) =>
       /\ whResponse # {}
       /\ SentIds = FunctionIds

\* C2 (as claimed): the dispatcher never raises past its boundary: the
\* request gets its { results } response, in which every invocation of type
\* "function" that cannot be run has a result with success=false and an
\* apology.
C2_DispatcherNeverThrows ==
    /\ whPc # "threw"
    /\ (WebhookOver /\ IsBatchRequest) =>
          /\ whResponse # {}
          /\ Len(SentResults) = Len(FunctionCalls)
          /\ \A k \in DOMAIN FunctionCalls :
                Unrunnable(FunctionCalls[k]) =>
                   /\ ~SentResults[k].result.success
                   /\ SentResults[k].result.message \in Apologies

\* C3 (as claimed): whatever happens to one invocation, every other
\* invocation of type "function" of the batch that can be run is dispatched
\* and has its result in the response.
C3_SiblingsStillRun ==
    (WebhookOver /\ IsBatchRequest) =>
       \A i \in DOMAIN ToolCallList :
          (IsFunctionCall(ToolCallList[i]) /\ ToolCallList[i].func # {}) =>
             /\ i \in dispatched
             /\ whResponse # {}
             /\ \E k \in DOMAIN SentResults :
                   SentResults[k].toolCallId = ToolCallList[i].id

(***************************************************************************)
(* Properties of the email-correction workflow.                            *)
(***************************************************************************)
TheBooking(r) == CHOOSE x \in booking[r] : TRUE
FoundPlaceholder(r) ==
    booking[r] # {} /\ Includes(TheBooking(r).email, PlaceholderDomain)
FoundReal(r) ==
    booking[r] # {} /\ ~Includes(TheBooking(r).email, PlaceholderDomain)
\* The create call of request r was issued, has returned, and made no booking.
RebookFailed(r) ==
    /\ FoundPlaceholder(r)
    /\ calls[r].create = 1
    /\ pc[r] # "awaitCreate"
    /\ created[r] = {}
\* Request r set one entry, under its own bookingUid, without newBookingUid.
WroteFallbackOnce(r) ==
    /\ Len(wrote[r]) = 1
    /\ wrote[r][1].key = req[r].bookingUid
    /\ "newBookingUid" \notin DOMAIN wrote[r][1].val
Quiescent == \A r \in Requests : ~InFlight(r)

\* C4: a request whose looked-up booking has a non-placeholder email issues no
\* cancel and no create call, and stores (and reads back at line 632) one
\* record under its bookingUid, without newBookingUid.
C4_RealEmailNoRebook ==
    \A r \in Requests :
       FoundReal(r) =>
          /\ calls[r].cancel = 0
          /\ calls[r].create = 0
          /\ WroteFallbackOnce(r)
          /\ readBack[r] = {wrote[r][1].val}
C4_Witness ==
    \E r \in Requests :
       FoundReal(r) /\ pc[r] = "done" /\ response[r].status = 200

\* C5: when the booking has a placeholder email and the provider created the
\* replacement, the record the request stores under the original uid names
\* the replacement's uid, which is not the original uid.
C5_RebookRecordsNewUid ==
    \A r \in Requests :
       (FoundPlaceholder(r) /\ created[r] # {}) =>
          /\ Len(wrote[r]) = 1
          /\ wrote[r][1].key = req[r].bookingUid
          /\ "newBookingUid" \in DOMAIN wrote[r][1].val
          /\ wrote[r][1].val.newBookingUid \in created[r]
          /\ wrote[r][1].val.newBookingUid # req[r].bookingUid
          /\ (lastWriter[req[r].bookingUid] = r =>
                MapGet(bookingCorrections, req[r].bookingUid) = {wrote[r][1].val})
C5_Witness ==
    \E r \in Requests :
       /\ FoundPlaceholder(r) /\ created[r] # {} /\ pc[r] = "done"
       /\ lastWriter[req[r].bookingUid] = r

\* C6 (as claimed): whenever the cancel of the old booking fails, by a
\* non-success status or by the call itself erroring, the create call for
\* the replacement is still issued.
C6_CancelFailureStillRebooks ==
    \A r \in Requests :
       outcomes[r].cancel \in {"notok", "reject"} => calls[r].create = 1

\* C7: in the placeholder path a failed create is no request failure: the
\* request stores a record without newBookingUid, issues the manual email
\* exactly when Resend is configured, and is answered 200 with success=true.
C7_RebookFailureFallsBack ==
    \A r \in Requests :
       RebookFailed(r) =>
          /\ WroteFallbackOnce(r)
          /\ calls[r].email = (IF resendConfigured THEN 1 ELSE 0)
          /\ pc[r] \in {"awaitEmail", "done"}
          /\ (pc[r] = "done" => response[r].status = 200 /\ response[r].success)
C7_Witness ==
    \E r \in Requests :
       RebookFailed(r) /\ pc[r] = "done" /\ calls[r].email = 1

\* C8: with the requests served one after the other, a request answered 200
\* has set exactly one entry, under its bookingUid; a request answered 400,
\* 404 or 500 has set none; the store never holds two records for a uid, and
\* between requests it holds, for each uid, the record of the request that
\* was answered 200 last for that uid (none when there is no such request).
C8_OneWritePerSuccess ==
    /\ \A r \in Requests :
          pc[r] = "done" =>
             /\ response[r].status \in {200, 400, 404, 500}
             /\ (response[r].status = 200 =>
                   Len(wrote[r]) = 1 /\ wrote[r][1].key = req[r].bookingUid)
             /\ (response[r].status # 200 => wrote[r] = <<>>)
    /\ \A k \in Keys : Cardinality(MapGet(bookingCorrections, k)) <= 1
    /\ \A e \in bookingCorrections : e.key \in Keys
    /\ Quiescent =>
          \A k \in Keys :
             MapGet(bookingCorrections, k) =
                (IF lastOk[k] = 0 THEN {} ELSE {wrote[lastOk[k]][1].val})
C8_Witness ==
    /\ Quiescent
    /\ \E r, q \in Requests :
          /\ r # q
          /\ req[r].bookingUid = req[q].bookingUid
          /\ response[r].status = 200 /\ response[q].status = 200
          /\ wrote[r][1].val # wrote[q][1].val
          /\ lastOk[req[r].bookingUid] = q

\* C9: with the requests interleaved at their awaits, the store holds for
\* each uid exactly the whole record of the request that set it last (the
\* content a serial run of the requests in the order of their writes leaves),
\* and the read at line 632 returns the record the same request has just set.
C9_StoreIsSerial ==
    /\ \A k \in Keys :
          MapGet(bookingCorrections, k) =
             (IF lastWriter[k] = 0 THEN {}
              ELSE {wrote[lastWriter[k]][Len(wrote[lastWriter[k]])].val})
    /\ \A r \in Requests :
          readBack[r] # {} => readBack[r] = {wrote[r][1].val}
C9_Witness ==
    \E r, q \in Requests :
       /\ r # q
       /\ req[r].bookingUid = req[q].bookingUid
       /\ InFlight(r)
       /\ wrote[r] # <<>> /\ wrote[q] # <<>>
       /\ lastWriter[req[r].bookingUid] = q
       /\ wrote[r][1].val # wrote[q][1].val

\* C10: a request that lacks bookingUid or email is answered 400 with
\* success=false, has issued no remote call and has set nothing in the store.
C10_MissingFieldIs400 ==
    \A r \in Requests :
       (pc[r] # "new" /\ (req[r].bookingUid = NoVal \/ req[r].email = <<>>)) =>
          /\ pc[r] = "done"
          /\ response[r].status = 400
          /\ ~response[r].success
          /\ calls[r] = NoCalls
          /\ wrote[r] = <<>>
          /\ created[r] = {}
C10_Witness ==
    \E r, q \in Requests :
       /\ pc[r] = "done" /\ req[r].bookingUid = NoVal
       /\ pc[q] = "done" /\ req[q].email = <<>> /\ req[q].bookingUid # NoVal

\* The booking list of request r has returned.
ListReturned(r) == outcomes[r].list # "none"
\* The provider holds no booking with the uid request r asks for.
NoSuchBooking(r) == \A b \in calBookings : b.uid # req[r].bookingUid
\* Request r has changed nothing: no cancel, create or email call, no write.
NoMutation(r) ==
    /\ calls[r].cancel = 0
    /\ calls[r].create = 0
    /\ calls[r].email = 0
    /\ created[r] = {}
    /\ wrote[r] = <<>>
AnsweredFailure(r, code) ==
    pc[r] = "done" /\ response[r].status = code /\ ~response[r].success

\* C11 (amended): the lookup precedes every mutation.  A request whose list
\* fetch answers a non-success status, or whose uid no listed booking has, is
\* answered 404 with success=false; a request whose list fetch itself errors
\* is answered 500 with success=false; in each case it issues no cancel, no
\* create and no email call and sets nothing in the store.  No request
\* mutates anything before its lookup has found a booking.
C11_LookupPrecedesMutation ==
    \A r \in Requests :
       /\ (ListReturned(r) /\ outcomes[r].list = "ok" /\ NoSuchBooking(r)) =>
             booking[r] = {}
       /\ (ListReturned(r) /\ booking[r] = {}) =>
             /\ NoMutation(r)
             /\ IF outcomes[r].list = "reject"
                THEN AnsweredFailure(r, 500)
                ELSE AnsweredFailure(r, 404)
       /\ ~NoMutation(r) => booking[r] # {}
C11_Witness ==
    \E r, q \in Requests :
       /\ outcomes[r].list = "ok" /\ NoSuchBooking(r) /\ AnsweredFailure(r, 404)
       /\ outcomes[q].list = "notok" /\ AnsweredFailure(q, 404)
\* C11 (as claimed): every request whose lookup finds no booking, the list
\* fetch failing included, is answered 404 with success=false and mutates
\* nothing.
C11_LookupFailureIs404 ==
    \A r \in Requests :
       (ListReturned(r) /\ booking[r] = {}) =>
          AnsweredFailure(r, 404) /\ NoMutation(r)

(***************************************************************************)
(* Properties of the handlers.                                             *)
(***************************************************************************)
\* The number of invocations of type "function" among the first i.
ResultIndex(i) ==
    Cardinality({j \in 1..i : IsFunctionCall(ToolCallList[j])})
\* The result of the invocation at position i has been pushed.
Recorded(i) == Len(results) >= ResultIndex(i)
ResultOf(i) == results[ResultIndex(i)].result
NameOf(i) ==
    IF ToolCallList[i].func = {} THEN NoVal
    ELSE (CHOOSE f \in ToolCallList[i].func : TRUE).name
\* A call of invocation i to api has returned with outcome.
Ended(i, api, outcome) ==
    \E k \in DOMAIN whOutcomes :
       /\ whOutcomes[k].idx = i
       /\ whOutcomes[k].api = api
       /\ whOutcomes[k].outcome = outcome
\* The number of calls invocation i has issued to api.
CallCount(i, api) ==
    Cardinality({k \in DOMAIN whCalls : whCalls[k] = <<i, api>>})
\* The calendar provider accepted the booking of the bookAppointment at i.
BookingAccepted(i) ==
    /\ NameOf(i) = "bookAppointment"
    /\ Ended(i, "calendar", "ok")

\* C12: when the calendar provider has accepted the booking of a
\* bookAppointment, its result has success=true whether the messaging send
\* was skipped (no credentials), answered a non-success status or errored,
\* and whatsappSent is true exactly when the send succeeded; without
\* credentials no messaging request is issued.
C12_BookingSuccessIgnoresMessaging ==
    \A i \in DOMAIN ToolCallList :
       (i \in dispatched /\ BookingAccepted(i) /\ Recorded(i)) =>
          /\ ResultOf(i).success
          /\ ResultOf(i).whatsappSent = Ended(i, "messaging", "ok")
          /\ (~twilioConfigured => CallCount(i, "messaging") = 0)
C12_Witness ==
    \E i, j \in DOMAIN ToolCallList :
       /\ whPc = "done"
       /\ BookingAccepted(i) /\ Ended(i, "messaging", "reject")
       /\ BookingAccepted(j) /\ Ended(j, "messaging", "notok")

\* The number of remote calls that have not returned yet.
Outstanding == Len(whCalls) - Len(whOutcomes)

\* C13: the invocations of a batch run one after the other: whenever a remote
\* call of the invocation at position i has been issued, the result of every
\* invocation of type "function" before i is recorded, calls are issued in
\* the order of the list and at most one is outstanding; a messaging request
\* is issued only for a bookAppointment whose booking the calendar provider
\* has accepted, never after a failed create.
C13_SequentialProcessing ==
    /\ Outstanding \in {0, 1}
    /\ \A k \in DOMAIN whCalls :
          /\ Len(results) >= ResultIndex(whCalls[k][1]) - 1
          /\ \A l \in DOMAIN whCalls : l < k => whCalls[l][1] <= whCalls[k][1]
    /\ (Outstanding = 1 => Len(results) = ResultIndex(whIdx) - 1)
    /\ \A i \in DOMAIN ToolCallList :
          /\ CallCount(i, "messaging") > 0 => BookingAccepted(i)
          /\ (Ended(i, "calendar", "notok") \/ Ended(i, "calendar", "reject")) =>
                CallCount(i, "messaging") = 0
C13_Witness ==
    /\ whPc = "done"
    /\ CallCount(1, "messaging") = 1
    /\ CallCount(2, "calendar") = 1
    /\ NameOf(2) = "bookAppointment" /\ Ended(2, "calendar", "notok")

(***************************************************************************)
(* Properties of the server as a whole.                                    *)
(***************************************************************************)
\* The number of calls of invocation i to api that have returned.
ReturnCount(i, api) ==
    Cardinality({k \in DOMAIN whOutcomes :
                    whOutcomes[k].idx = i /\ whOutcomes[k].api = api})

\* C14: no call is issued twice: an invocation issues at most one calendar
\* request and, when it is a bookAppointment, at most one messaging request
\* (none otherwise); an update-email request issues at most one list fetch,
\* one cancel, one create and one email send; this holds after each of these
\* calls has failed.
C14_NoRetries ==
    /\ \A i \in DOMAIN ToolCallList :
          /\ CallCount(i, "calendar") <= 1
          /\ CallCount(i, "messaging") <= 1
          /\ ReturnCount(i, "calendar") <= CallCount(i, "calendar")
          /\ ReturnCount(i, "messaging") <= CallCount(i, "messaging")
          /\ (NameOf(i) # "bookAppointment" => CallCount(i, "messaging") = 0)
    /\ Len(whCalls) <= Len(ToolCallList) + Len(ToolCallList)
    /\ \A r \in Requests :
          /\ calls[r].list <= 1
          /\ calls[r].cancel <= 1
          /\ calls[r].create <= 1
          /\ calls[r].email <= 1
C14_Witness ==
    /\ whPc = "done"
    /\ \E i \in DOMAIN ToolCallList :
          Ended(i, "calendar", "notok") \/ Ended(i, "calendar", "reject")
    /\ \E r \in Requests :
          /\ pc[r] = "done"
          /\ calls[r] = [list |-> 1, cancel |-> 1, create |-> 1, email |-> 1]
          /\ outcomes[r].cancel = "notok"
          /\ created[r] = {}
          /\ outcomes[r].email = "reject"

\* The calendar call of the invocation at position i has failed.
CalendarFailed(i) ==
    Ended(i, "calendar", "notok") \/ Ended(i, "calendar", "reject")

\* C15: when the calendar call of a getAvailableSlots, bookAppointment,
\* cancelAppointment or rescheduleAppointment fails, by a non-success status
\* or by the call itself erroring, the handler returns a result, which is not
\* the one of the dispatcher's catch, with success=false, an error detail and
\* a message that is an apology.
C15_CalendarFailureIsResult ==
    \A i \in DOMAIN ToolCallList :
       (i \in dispatched /\ CalendarFailed(i)) =>
          /\ NameOf(i) \in KnownFunctions
          /\ Recorded(i)
          /\ ~ResultOf(i).success
          /\ "error" \in DOMAIN ResultOf(i)
          /\ Len(ResultOf(i).error) > 0
          /\ Len(ResultOf(i).message) > 1
          /\ ResultOf(i).message[1] = Apology
          /\ ResultOf(i).message # CatchResult.message
C15_Witness ==
    \E i, j \in DOMAIN ToolCallList :
       /\ whPc = "done"
       /\ NameOf(i) \in {"getAvailableSlots", "cancelAppointment"}
       /\ Ended(i, "calendar", "reject")
       /\ NameOf(j) \in {"bookAppointment", "rescheduleAppointment"}
       /\ Ended(j, "calendar", "notok")

\* The result carries a message that is not empty.
HasMessage(result) ==
    /\ "success" \in DOMAIN result
    /\ "message" \in DOMAIN result
    /\ Len(result.message) > 0

\* C16: every result pushed for an invocation, and so every result of a
\* /webhook response, carries a message, whether its success flag is true or
\* false and whether a handler, the unknown-operation branch or the
\* dispatcher's catch built it.
C16_MessageAlwaysPresent ==
    /\ \A k \in DOMAIN results : HasMessage(results[k].result)
    /\ whResponse # {} =>
          \A k \in DOMAIN SentResults : HasMessage(SentResults[k].result)
C16_Witness ==
    /\ whResponse # {}
    /\ \E k, l \in DOMAIN SentResults :
          /\ SentResults[k].result.success
          /\ SentResults[l].result \in {CatchResult, UnknownResult("transferCall")}

\* The invocation at position i names none of the four operations.
UnknownOperation(i) ==
    /\ IsFunctionCall(ToolCallList[i])
    /\ ToolCallList[i].func # {}
    /\ NameOf(i) \notin KnownFunctions

\* C17: an invocation of type "function" whose name is none of the four
\* operations gets a result with success=false, an error detail that contains
\* the name and an apology that does not contain it, and issues no call to
\* the calendar or the messaging provider.
C17_UnknownOperation ==
    \A i \in DOMAIN ToolCallList :
       (i \in dispatched /\ UnknownOperation(i)) =>
          /\ Recorded(i)
          /\ ~ResultOf(i).success
          /\ Includes(ResultOf(i).error, NameOf(i))
          /\ ResultOf(i).message[1] = Apology
          /\ ~Includes(ResultOf(i).message, NameOf(i))
          /\ CallCount(i, "calendar") = 0
          /\ CallCount(i, "messaging") = 0
          /\ ReturnCount(i, "calendar") = 0
C17_Witness ==
    /\ whPc = "done"
    /\ \E i, j \in DOMAIN ToolCallList :
          /\ i \in dispatched /\ UnknownOperation(i)
          /\ j \in dispatched /\ CallCount(j, "calendar") = 1

\* The request carries no invocation: its message is absent or not of type
\* tool-calls, or its toolCallList is absent or empty.
NoInvocations ==
    \/ ~whMessage.present
    \/ whMessage.type # "tool-calls"
    \/ whMessage.toolCallList = {}
    \/ Len(ToolCallList) = 0

\* C18: a /webhook request that carries no invocation is answered
\* { results: [] }: it does not fail, no switch statement is entered and no
\* remote call is issued.
C18_EmptyWebhook ==
    (whPc # "new" /\ NoInvocations) =>
       /\ whPc = "done"
       /\ whResponse = {[results |-> <<>>]}
       /\ dispatched = {}
       /\ results = <<>>
       /\ whCalls = <<>>
       /\ whOutcomes = <<>>
C18_Witness ==
    /\ whPc = "done"
    /\ whMessage.present
    /\ whMessage.type = "tool-calls"
    /\ whMessage.toolCallList # {}
    /\ Len(ToolCallList) = 0
    /\ whResponse = {[results |-> <<>>]}

\* The arguments of the invocation at position i.
ParamsOf(i) ==
    CHOOSE p \in (CHOOSE f \in ToolCallList[i].func : TRUE).arguments : TRUE
\* The provider's answer holds no slot for the date: it has no key for the
\* date, or the key's list is empty.
NoSlotsFor(answer, date) == \A e \in answer : e.date = date => e.times = <<>>
\* The slots call of the getAvailableSlots at position i was answered
\* successfully, without a slot for the date asked.
AnsweredNoSlots(i) ==
    /\ NameOf(i) = "getAvailableSlots"
    /\ \E k \in DOMAIN whOutcomes :
          /\ whOutcomes[k].idx = i
          /\ whOutcomes[k].outcome = "ok"
          /\ NoSlotsFor(whOutcomes[k].answer, ParamsOf(i).date)

\* C19: when the provider answers a getAvailableSlots successfully but has no
\* slot for the date asked (no key for the date, or an empty list), the
\* result has success=true, slots=[] and a message that names the date and
\* offers a different one.
C19_NoSlotsIsSuccess ==
    \A i \in DOMAIN ToolCallList :
       (i \in dispatched /\ AnsweredNoSlots(i)) =>
          /\ Recorded(i)
          /\ ResultOf(i).success
          /\ "slots" \in DOMAIN ResultOf(i)
          /\ ResultOf(i).slots = <<>>
          /\ Includes(ResultOf(i).message, ParamsOf(i).date)
          /\ Includes(ResultOf(i).message, ". Would you like to try a different date?")
C19_Witness ==
    \E i, j \in DOMAIN ToolCallList :
       /\ whPc = "done"
       /\ AnsweredNoSlots(i) /\ Ended(i, "calendar", "ok")
       /\ AnsweredNoSlots(j) /\ Ended(j, "calendar", "ok")
       /\ \E k, l \in DOMAIN whOutcomes :
             /\ whOutcomes[k].idx = i /\ whOutcomes[k].answer = {}
             /\ whOutcomes[l].idx = j
             /\ \E e \in whOutcomes[l].answer :
                   e.date = ParamsOf(j).date /\ e.times = <<>>

(***************************************************************************)
(* Properties of the confirmation email.                                   *)
(***************************************************************************)
\* Request r found its booking and is past the rebooking without a
\* replacement: the email was real, or the cancel or the create failed.
NotRebooked(r) ==
    /\ booking[r] # {}
    /\ created[r] = {}
    /\ pc[r] \in {"awaitEmail", "done"}
\* The confirmation email of request r was not sent: Resend is not
\* configured, or the send answered a non-success status or errored.
EmailNotSent(r) ==
    \/ ~resendConfigured
    \/ outcomes[r].email \in {"notok", "reject"}

\* C20: a request whose booking is not rebooked (a real email, or the
\* fallback after a failed rebook) has stored its record under its
\* bookingUid before the email is tried, and is answered 200 with
\* success=true whether Resend is not configured, the send answers a
\* non-success status, the send errors or the send succeeds.
C20_EmailNeverFailsRequest ==
    \A r \in Requests :
       NotRebooked(r) =>
          /\ WroteFallbackOnce(r)
          /\ MapHas(bookingCorrections, req[r].bookingUid)
          /\ (lastWriter[req[r].bookingUid] = r =>
                MapGet(bookingCorrections, req[r].bookingUid) = {wrote[r][1].val})
          /\ calls[r].email = (IF resendConfigured THEN 1 ELSE 0)
          /\ (pc[r] = "done" =>
                /\ response[r].status = 200
                /\ response[r].success
                /\ (resendConfigured => outcomes[r].email \in Outcomes))
          /\ ((pc[r] = "done" /\ EmailNotSent(r)) =>
                /\ response[r].status = 200
                /\ response[r].success
                /\ response[r].message = FallbackMessage)
          /\ (pc[r] = "awaitEmail" => resendConfigured)
C20_Witness ==
    \E r, q \in Requests :
       /\ pc[r] = "done" /\ FoundReal(r) /\ NotRebooked(r)
       /\ outcomes[r].email = "reject" /\ response[r].status = 200
       /\ pc[q] = "done" /\ RebookFailed(q) /\ NotRebooked(q)
       /\ outcomes[q].email = "notok" /\ response[q].status = 200

(***************************************************************************)
(* Properties of parseDateTime.                                            *)
(***************************************************************************)
\* The hour and the minute a well-formed time string stands for.
ExpectedHour(time) ==
    IF time.kind = "12"
    THEN (time.h % 12) + (IF time.period = "PM" THEN 12 ELSE 0)
    ELSE time.h
ExpectedMinute(time) == IF time.mm = {} THEN 0 ELSE CHOOSE m \in time.mm : TRUE
WellFormed(time) == time.kind \in {"12", "24"}

\* C21 (as claimed): for every date, every well-formed time and every
\* time-zone offset, the instant parseDateTime returns, read in the process
\* clock, is on the given date's calendar day at the parsed hour and minute.
C21_LocalDayAndTime ==
    \A a \in pdArgs, res \in pdResult :
       WellFormed(a.time) =>
          /\ ~res.threw
          /\ LocalDay(res.instant, tzOffset) = DayOf(a.date)
          /\ LocalMinute(res.instant, tzOffset) =
                ExpectedHour(a.time) * 60 + ExpectedMinute(a.time)

\* C22: for every 12-hour time "h[:mm] AM|PM" the parsed hour is h mod 12,
\* plus 12 for PM, and the minute is mm, or 0 when it is omitted; for every
\* 24-hour time "HH:MM" the parsed hour is HH and the minute MM; the instant
\* returned reads that hour and minute in the process clock.
C22_HourConversion ==
    \A a \in pdArgs, res \in pdResult :
       WellFormed(a.time) =>
          /\ ~res.threw
          /\ res.hours = {ExpectedHour(a.time)}
          /\ res.minutes = ExpectedMinute(a.time)
          /\ LocalMinute(res.instant, tzOffset) =
                ExpectedHour(a.time) * 60 + ExpectedMinute(a.time)
C22_Witness ==
    \E a \in pdArgs, res \in pdResult :
       /\ a.time.kind = "12" /\ a.time.h = 12 /\ a.time.period = "AM"
       /\ a.time.mm = {}
       /\ res.hours = {0} /\ res.minutes = 0

(***************************************************************************)
(* The two 200 answers of /api/update-email.                               *)
(***************************************************************************)
\* The request was answered by the 200 of line 605, after a rebook.
Rebooked(r) == pc[r] = "done" /\ response[r].status = 200 /\ created[r] # {}
\* The request was answered by the 200 of line 687, without a rebook.
FellBack(r) == pc[r] = "done" /\ response[r].status = 200 /\ created[r] = {}
\* One request was rebooked and one with the same body fell back.
BothPaths(r, q) == Rebooked(r) /\ FellBack(q) /\ req[r] = req[q]

\* C23 (as the specification states it): the 200 after a successful rebook
\* and the 200 after the fallback are the same response, message included.
C23_SameResponse ==
    \A r, q \in Requests : BothPaths(r, q) => response[r] = response[q]

\* C23 (amended): the 200 after a successful rebook and the 200 after the
\* fallback have the same status, the same success flag, the same fields and
\* the same booking date, time and corrected name; the message text differs
\* (the rebook's says the confirmation comes from Cal.com).
C23_SameShapeAndBooking ==
    \A r, q \in Requests :
        BothPaths(r, q) =>
            /\ DOMAIN response[r] = DOMAIN response[q]
            /\ response[r].status = response[q].status
            /\ response[r].success = response[q].success
            /\ response[r].booking = response[q].booking
            /\ response[r].booking # {}
            /\ response[r].message = RebookedMessage
            /\ response[q].message = FallbackMessage
            /\ response[r].message # response[q].message

C23_Witness ==
    \E r, q \in Requests :
        /\ BothPaths(r, q)
        /\ ~Truthy(req[r].name)
        /\ response[r].booking = response[q].booking

(***************************************************************************)
(* What a 200 leaves at the calendar provider.                             *)
(***************************************************************************)
\* The booking the request found is still active at the provider.
OriginalActive(r) ==
    \E b \in calBookings :
        /\ b.uid = req[r].bookingUid
        /\ ~b.cancelled
\* The provider holds an active booking, made by a correction, for the start
\* of the booking the request found.
ReplacementActive(r) ==
    \E b \in calBookings, o \in booking[r] :
        /\ b.uid # o.uid
        /\ b.startTime = o.startTime
        /\ ~b.cancelled

\* C24: whenever /api/update-email answers 200 for a booking, the customer
\* has an active appointment at the provider: the original booking is not
\* cancelled or a replacement for the same start has been created.
C24_ActiveAppointmentAfter200 ==
    \A r \in Requests :
        (pc[r] = "done" /\ response[r].status = 200) =>
            (OriginalActive(r) \/ ReplacementActive(r))

(***************************************************************************)
(* Replacement bookings of one original uid.                               *)
(***************************************************************************)
\* The bookings the provider holds that corrections of uid created.
ReplacementsOf(uid) ==
    {b.uid : b \in {x \in calBookings :
                      \E r \in Requests : /\ req[r].bookingUid = uid
                                          /\ x.uid \in created[r]}}
\* The stored record of uid names a new booking among uids.
StoredNames(uid, uids) ==
    \E rec \in MapGet(bookingCorrections, uid) :
        /\ "newBookingUid" \in DOMAIN rec
        /\ rec.newBookingUid \in uids

\* C25: for an original uid, whatever requests for it have run or are
\* running, at most one replacement booking has been created at the
\* provider, and the stored record's newBookingUid names it.
C25_AtMostOneReplacement ==
    \A uid \in Keys :
        /\ Cardinality(ReplacementsOf(uid)) <= 1
        /\ ReplacementsOf(uid) # {} => StoredNames(uid, ReplacementsOf(uid))

(***************************************************************************)
(* Every update-email request is answered once.                            *)
(***************************************************************************)
\* The statuses the endpoint sends (lines 476, 493, 508, 605, 687, 698).
UpdateEmailStatuses == {400, 404, 200, 500}
\* The request has its response.
Answered(r) == pc[r] = "done" /\ response[r].status \in UpdateEmailStatuses
\* A request without a response has sent nothing, and one with a response
\* is over.
OneResponseAtMost ==
    \A r \in Requests :
        /\ pc[r] # "done" => response[r] = NoResponse
        /\ pc[r] = "done" => response[r].status \in UpdateEmailStatuses
\* A response, once sent, is not followed by another.
ResponseIsFinal ==
    \A r \in Requests :
        response[r] # NoResponse => /\ response'[r] = response[r]
                                    /\ pc'[r] = pc[r]

\* C26: every update-email request that has arrived gets a response in the
\* end, with status 400, 404, 200 or 500, when every remote call it issues
\* returns or errors; no request gets two responses and none ends without.
C26_EventuallyOneResponse ==
    /\ []OneResponseAtMost
    /\ [][ResponseIsFinal]_vars
    /\ \A r \in Requests : (pc[r] # "new") ~> Answered(r)

\* A request that went through all four remote calls has its response.
C26_Witness ==
    \E r \in Requests :
        /\ Answered(r)
        /\ calls[r].list = 1 /\ calls[r].cancel = 1
        /\ calls[r].create = 1 /\ calls[r].email = 1

(***************************************************************************)
(* Booking and correction on what a placeholder is.                        *)
(***************************************************************************)
\* The bookAppointment of the /webhook request came without a customer email.
BookedWithoutEmail == ~TruthyText(ParamsOf(1).customerEmail)
\* The request found the booking the bookAppointment made.
CorrectsBooked(r) == \E b \in booking[r] : b.uid = FirstNewUid
\* The request went the placeholder way: it issued the cancel of line 543.
TookPlaceholderPath(r) == calls[r].cancel > 0

\* C27: a booking made by bookAppointment is cancelled and rebooked by the
\* correction workflow exactly when it was booked without a customer
\* email, whatever email and phone the customer gave.
C27_PlaceholderIffNoEmail ==
    \A r \in Requests :
        CorrectsBooked(r) => (TookPlaceholderPath(r) <=> BookedWithoutEmail)

(***************************************************************************)
(* The replacement booking against the original.                           *)
(***************************************************************************)
\* The booking the request found.
OriginalOf(r) == CHOOSE o \in booking[r] : TRUE
\* The bookings the provider holds that the request created.
ReplacementsBy(r) == {n \in calBookings : n.uid \in created[r]}
\* n has the event type, the start and the metadata of o.
SameAppointment(n, o) ==
    /\ n.eventTypeId = o.eventTypeId
    /\ n.startTime = o.startTime
    /\ n.metadata = o.metadata

====
